---- MODULE Spec2Model ----
(***************************************************************************)
(* Model of package stackerr (src/stackerr.go): an error decorator that    *)
(* records the call stack where an error was first created, and renders it *)
(* on demand through a text template.                                      *)
(*                                                                         *)
(* Error values are records.  Strings are sequences of tokens, so that     *)
(* concatenation, quoting and joining are computed, not assumed.           *)
(*   plain : a pointer error without a cause (errors.New, fmt.Errorf       *)
(*           without %w, a third-party error); id is its address           *)
(*   wrap  : a pointer error with a cause (fmt.Errorf with %w, a template  *)
(*           execution error); id is its address                           *)
(*   stack : an errorStack value {Err, trace, earlier}                     *)
(***************************************************************************)
EXTENDS Naturals, Sequences, FiniteSets, TLC

VARIABLES errs, origin, nalloc, last

vars == <<errs, origin, nalloc, last>>

(* Bounds and program constants *)

\* number of error values the program under analysis holds
MaxErrs == 3

\* make([]uintptr, 20)
MaxFrames == 20

\* runtime.Callers(3, pc)
SkipFrames == 3

(* Values *)

\* the nil error, and the nil *errorStack
NilErr == [kind |-> "nil"]

Min(a, b) == IF a < b THEN a ELSE b

Take(s, n) == SubSeq(s, 1, Min(n, Len(s)))

Drop(s, n) == SubSeq(s, Min(n, Len(s)) + 1, Len(s))

\* messages handed to errors.New and New
Msgs == { <<"say ", "\"", "hi", "\"">> }

\* the text before the verb in a format string such as "wrapped: %w"
Prefix == <<"wrapped: ">>

\* the shapes of format string: "wrapped: %w" with an error argument,
\* "wrapped: " without arguments
Directives == {"w", "none"}

\* call stacks of the code that calls into the package, innermost frame first;
\* the second one is deeper than the capture buffer
ShallowStack == <<"app.Handler", "testing.tRunner", "runtime.goexit">>

DeepStack ==
    <<"app.leaf">> \o [i \in 1..MaxFrames |-> "app.recurse"] \o <<"runtime.goexit">>

Stacks == {ShallowStack, DeepStack}

\* what runtime.CallersFrames reports for a program counter
SymTab ==
    ("app.Handler" :> [File |-> "app/handler.go", Line |-> "45"]) @@
    ("app.leaf" :> [File |-> "app/tree.go", Line |-> "7"]) @@
    ("app.recurse" :> [File |-> "app/tree.go", Line |-> "12"]) @@
    ("app.guard" :> [File |-> "app/tmpl.go", Line |-> "30"]) @@
    ("testing.tRunner" :> [File |-> "testing/testing.go", Line |-> "909"]) @@
    ("runtime.goexit" :> [File |-> "runtime/asm_amd64.s", Line |-> "1357"]) @@
    ("runtime.Callers" :> [File |-> "runtime/extern.go", Line |-> "1"]) @@
    ("text/template.Execute" :> [File |-> "text/template/exec.go", Line |-> "2"]) @@
    ("stackerr.buildStackTrace" :> [File |-> "stackerr/stackerr.go", Line |-> "62"]) @@
    ("stackerr.New" :> [File |-> "stackerr/stackerr.go", Line |-> "71"]) @@
    ("stackerr.Wrap" :> [File |-> "stackerr/stackerr.go", Line |-> "56"]) @@
    ("stackerr.Errorf" :> [File |-> "stackerr/stackerr.go", Line |-> "93"]) @@
    ("stackerr.Trace" :> [File |-> "stackerr/stackerr.go", Line |-> "147"]) @@
    ("fmt.Sprintf" :> [File |-> "fmt/print.go", Line |-> "3"])

ZeroFrame == [Function |-> "", File |-> "", Line |-> "0"]

FrameOf(pc) ==
    [Function |-> pc, File |-> SymTab[pc].File, Line |-> SymTab[pc].Line]

(* The error chain primitives the package consumes *)

RECURSIVE Error(_)
\* err.Error(): the display string
Error(e) ==
    CASE e.kind = "plain" -> e.msg
      [] e.kind = "wrap" -> e.msg
      [] e.kind = "stack" -> Error(e.Err)
      [] OTHER -> <<>>

\* errors.Unwrap(err)
Unwrap(e) ==
    CASE e.kind = "stack" -> e.Err
      [] e.kind = "wrap" -> e.inner
      [] OTHER -> NilErr

RECURSIVE As(_)
\* errors.As(err, &se) with se an errorStack: the first errorStack value on the
\* unwrap chain, NilErr when there is none
As(e) ==
    CASE e.kind = "stack" -> e
      [] e.kind = "wrap" -> As(e.inner)
      [] OTHER -> NilErr

\* errors.New(msg)
ErrorsNew(msg, id) == [kind |-> "plain", id |-> id, msg |-> msg, detail |-> msg]

\* an error of another package that implements fmt.Formatter: its %+v
\* rendering says more than its display string
ThirdParty(id) ==
    [kind |-> "plain", id |-> id, msg |-> <<"io failure">>,
     detail |-> <<"io failure", " [op=read]">>]

\* fmt.Errorf(format, x) for the shapes of format string
FmtErrorf(dir, x, id) ==
    IF dir = "w"
    THEN [kind |-> "wrap", id |-> id, msg |-> Prefix \o Error(x), inner |-> x]
    ELSE ErrorsNew(Prefix, id)

(* errorStack *)

\* StackTrace without the step to the earlier decorator
StackTraceOwn(e) == e.trace

RECURSIVE StackTrace(_)
\* the program counters handed to runtime.CallersFrames
StackTrace(e) ==
    IF e.earlier # NilErr THEN StackTrace(e.earlier) ELSE e.trace

RECURSIVE ErrorsIs(_, _)
RECURSIVE Is(_, _)
\* errors.Is(err, target): an errorStack target is not comparable, every other
\* error of the model is a pointer
ErrorsIs(err, target) ==
    IF target = NilErr
    THEN err = target
    ELSE \/ (target.kind # "stack" /\ err = target)
         \/ (err.kind = "stack" /\ Is(err, target))
         \/ (Unwrap(err) # NilErr /\ ErrorsIs(Unwrap(err), target))

\* Is comparing with the target instead of the error the target wraps
IsWholeTarget(e, err) ==
    IF err.kind = "stack" THEN ErrorsIs(e.Err, err) ELSE FALSE

Is(e, err) ==
    IF err.kind = "stack" THEN ErrorsIs(e.Err, err.Err) ELSE FALSE

\* runtime.Callers(skip, pc) with len(pc) = size, on the stack of its caller
Callers(skip, size, stack) == Take(Drop(<<"runtime.Callers">> \o stack, skip), size)

\* stack: the call stack with the function that calls buildStackTrace first
buildStackTrace(stack) ==
    Callers(SkipFrames, MaxFrames, <<"stackerr.buildStackTrace">> \o stack)

\* Wrap looking at the error itself instead of its unwrap chain
WrapTopOnly(err, stack) ==
    IF err = NilErr
    THEN [val |-> NilErr, cap |-> 0]
    ELSE IF err.kind = "stack"
         THEN [val |-> err, cap |-> 0]
         ELSE [val |-> [kind |-> "stack", Err |-> err,
                        trace |-> buildStackTrace(<<"stackerr.Wrap">> \o stack),
                        earlier |-> NilErr],
               cap |-> 1]

\* Wrap without the search for an existing decorator
WrapAlways(err, stack) ==
    IF err = NilErr
    THEN [val |-> NilErr, cap |-> 0]
    ELSE [val |-> [kind |-> "stack", Err |-> err,
                   trace |-> buildStackTrace(<<"stackerr.Wrap">> \o stack),
                   earlier |-> NilErr],
          cap |-> 1]

\* stack: the call stack of Wrap's caller. val is the returned error, cap the
\* number of stack captures made
Wrap(err, stack) ==
    IF err = NilErr
    THEN [val |-> NilErr, cap |-> 0]
    ELSE IF As(err) # NilErr
         THEN [val |-> err, cap |-> 0]
         ELSE [val |-> [kind |-> "stack", Err |-> err,
                        trace |-> buildStackTrace(<<"stackerr.Wrap">> \o stack),
                        earlier |-> NilErr],
               cap |-> 1]

New(msg, id, stack) ==
    [val |-> [kind |-> "stack", Err |-> ErrorsNew(msg, id),
              trace |-> buildStackTrace(<<"stackerr.New">> \o stack),
              earlier |-> NilErr],
     cap |-> 1]

\* Errorf capturing a stack whatever the chain holds
ErrorfRecapture(dir, x, id, stack) ==
    [val |-> [kind |-> "stack", Err |-> FmtErrorf(dir, x, id),
              trace |-> buildStackTrace(<<"stackerr.Errorf">> \o stack),
              earlier |-> NilErr],
     cap |-> 1]

\* Errorf pointing to the decorator it found, also when that one points on
ErrorfNoFlatten(dir, x, id, stack) ==
    LET err == FmtErrorf(dir, x, id)
        st == As(err)
    IN IF st # NilErr
       THEN [val |-> [kind |-> "stack", Err |-> err, trace |-> <<>>,
                      earlier |-> st],
             cap |-> 0]
       ELSE [val |-> [kind |-> "stack", Err |-> err,
                      trace |-> buildStackTrace(<<"stackerr.Errorf">> \o stack),
                      earlier |-> NilErr],
             cap |-> 1]

Errorf(dir, x, id, stack) ==
    LET err == FmtErrorf(dir, x, id)
        st == As(err)
    IN IF st # NilErr
       THEN [val |-> [kind |-> "stack", Err |-> err, trace |-> <<>>,
                      earlier |-> IF st.earlier # NilErr THEN st.earlier ELSE st],
             cap |-> 0]
       ELSE [val |-> [kind |-> "stack", Err |-> err,
                      trace |-> buildStackTrace(<<"stackerr.Errorf">> \o stack),
                      earlier |-> NilErr],
             cap |-> 1]

\* HasStack looking at the error itself instead of its unwrap chain
HasStackTopOnly(e) == e.kind = "stack"

\* HasStack(e)
HasStack(e) == As(e) # NilErr

(* Templates *)

Lit(v) == [k |-> "lit", v |-> v]

Field(v) == [k |-> "field", v |-> v]

\* a call of the template function guard, which returns an error for the frame
\* of function failAt: a plain one, or (dec) one made by stackerr.New
Call(failAt, dec) == [k |-> "call", v |-> failAt, dec |-> dec]

\* "{{.Function}} ({{.File}}:{{.Line}})"
StandardFormat ==
    [name |-> "standardFormat",
     items |-> <<Field("Function"), Lit(" ("), Field("File"), Lit(":"),
                 Field("Line"), Lit(")")>>]

\* "{{.Function}} ({{.File}}:{{.Foobar}})"
invalidFormat ==
    [name |-> "invalidFormat",
     items |-> <<Field("Function"), Lit(" ("), Field("File"), Lit(":"),
                 Field("Foobar"), Lit(")")>>]

\* "{{.Line}} {{guard .Function}}", guard failing with a plain error
guardedFormat ==
    [name |-> "guardedFormat",
     items |-> <<Field("Line"), Lit(" "), Call("testing.tRunner", FALSE)>>]

\* the same, guard failing with an error made by stackerr.New
tracedFormat ==
    [name |-> "tracedFormat",
     items |-> <<Field("Line"), Lit(" "), Call("testing.tRunner", TRUE)>>]

Templates == {StandardFormat, invalidFormat, guardedFormat, tracedFormat}

\* text/template's ExecError{Name, Err}: its display string is Err's
ExecError(inner, id) ==
    [kind |-> "wrap", id |-> id, msg |-> Error(inner), inner |-> inner]

RECURSIVE Exec(_, _, _, _, _, _)
\* the template's items from the k-th on, buf the text written so far
Exec(t, k, frame, buf, id, stack) ==
    IF k > Len(t.items)
    THEN [out |-> buf, err |-> NilErr, cap |-> 0]
    ELSE LET it == t.items[k]
         IN CASE it.k = "lit" -> Exec(t, k + 1, frame, buf \o <<it.v>>, id, stack)
              [] it.k = "field" ->
                   IF it.v \in DOMAIN frame
                   THEN Exec(t, k + 1, frame, buf \o <<frame[it.v]>>, id, stack)
                   ELSE [out |-> buf,
                         err |-> ExecError(
                                   ErrorsNew(<<"template: ", t.name,
                                               ": can't evaluate field ", it.v>>, id),
                                   id + 1),
                         cap |-> 0]
              [] OTHER ->
                   IF frame.Function # it.v
                   THEN Exec(t, k + 1, frame, buf \o <<"ok">>, id, stack)
                   ELSE LET made == IF it.dec
                                    THEN New(<<"refused">>, id,
                                             <<"app.guard", "text/template.Execute">>
                                               \o stack)
                                    ELSE [val |-> ErrorsNew(<<"refused">>, id),
                                          cap |-> 0]
                            cause == [kind |-> "wrap", id |-> id + 1,
                                      msg |-> <<"template: ", t.name,
                                                ": error calling guard: ">>
                                                \o Error(made.val),
                                      inner |-> made.val]
                        IN [out |-> buf, err |-> ExecError(cause, id + 2),
                            cap |-> made.cap]

\* t.Execute(&b, frame) on an empty buffer; stack: the call stack of its caller
Execute(t, frame, id, stack) == Exec(t, 1, frame, <<>>, id, stack)

\* frames.Next() on the program counters not yet walked
FramesNext(pcs) ==
    IF pcs = <<>>
    THEN [frame |-> ZeroFrame, more |-> FALSE, rest |-> <<>>]
    ELSE [frame |-> FrameOf(Head(pcs)), more |-> Len(pcs) > 1, rest |-> Tail(pcs)]

RECURSIVE TraceLoopEarlyBreak(_, _, _, _, _)
\* the loop leaving before it appends the line of the last frame
TraceLoopEarlyBreak(pcs, s, t, id, stack) ==
    LET n == FramesNext(pcs)
        r == Execute(t, n.frame, id, stack)
    IN IF r.err # NilErr
       THEN LET w == Wrap(r.err, stack)
            IN [lines |-> <<>>, err |-> w.val, cap |-> r.cap + w.cap]
       ELSE IF ~n.more
            THEN [lines |-> s, err |-> NilErr, cap |-> 0]
            ELSE TraceLoopEarlyBreak(n.rest, Append(s, r.out), t, id, stack)

RECURSIVE TraceLoopKeepLines(_, _, _, _, _)
\* the loop returning, with the error, the lines rendered before the failure
TraceLoopKeepLines(pcs, s, t, id, stack) ==
    LET n == FramesNext(pcs)
        r == Execute(t, n.frame, id, stack)
    IN IF r.err # NilErr
       THEN LET w == Wrap(r.err, stack)
            IN [lines |-> s, err |-> w.val, cap |-> r.cap + w.cap]
       ELSE IF ~n.more
            THEN [lines |-> Append(s, r.out), err |-> NilErr, cap |-> 0]
            ELSE TraceLoopKeepLines(n.rest, Append(s, r.out), t, id, stack)

RECURSIVE TraceLoop(_, _, _, _, _)
\* the for loop of Trace: pcs the frames not yet walked, s the lines so far
TraceLoop(pcs, s, t, id, stack) ==
    LET n == FramesNext(pcs)
        r == Execute(t, n.frame, id, stack)
    IN IF r.err # NilErr
       THEN LET w == Wrap(r.err, stack)
            IN [lines |-> <<>>, err |-> w.val, cap |-> r.cap + w.cap]
       ELSE IF ~n.more
            THEN [lines |-> Append(s, r.out), err |-> NilErr, cap |-> 0]
            ELSE TraceLoop(n.rest, Append(s, r.out), t, id, stack)

\* Trace(e, t); stack: the call stack of Trace's caller
Trace(e, t, id, stack) ==
    LET se == As(e)
    IN IF se = NilErr
       THEN [lines |-> <<>>, err |-> NilErr, cap |-> 0]
       ELSE TraceLoop(StackTrace(se), <<>>, t, id, <<"stackerr.Trace">> \o stack)

RECURSIVE Join(_, _)
\* strings.Join(lines, sep)
Join(lines, sep) ==
    IF lines = <<>> THEN <<>>
    ELSE IF Len(lines) = 1 THEN lines[1]
    ELSE lines[1] \o <<sep>> \o Join(Tail(lines), sep)

\* one token of a string as strconv.Quote writes it
Escape(tok) ==
    CASE tok = "\"" -> "\\\""
      [] tok = "\n" -> "\\n"
      [] OTHER -> tok

\* fmt's %q of a string
Quote(s) == <<"\"">> \o [i \in 1..Len(s) |-> Escape(s[i])] \o <<"\"">>

\* fmt's %+v of an error that is not an errorStack
Detailed(e) ==
    CASE e.kind = "plain" -> e.detail
      [] e.kind = "wrap" -> e.msg
      [] OTHER -> <<"<nil>">>

\* Format with %s sharing the case of %v
FormatSharedCase(e, verb, plus, id, stack) ==
    CASE verb \in {"v", "s"} ->
           IF plus
           THEN Detailed(Unwrap(e)) \o <<"\n">>
                  \o Join(Trace(e, StandardFormat, id, stack).lines, "\n")
           ELSE Error(e)
      [] verb = "q" -> Quote(Error(e))
      [] OTHER -> <<>>

\* e.Format(s, verb): the text written to s; plus is s.Flag('+')
Format(e, verb, plus, id, stack) ==
    CASE verb = "v" ->
           IF plus
           THEN Detailed(Unwrap(e)) \o <<"\n">>
                  \o Join(Trace(e, StandardFormat, id, stack).lines, "\n")
           ELSE Error(e)
      [] verb = "s" -> Error(e)
      [] verb = "q" -> Quote(Error(e))
      [] OTHER -> <<>>

Verbs == {"v", "s", "q", "d"}

(* The program that uses the package.                                      *)
(* errs   : the error values it holds, in order of creation                *)
(* origin : for each of them, the call stack of the caller that first gave *)
(*          it a decorator (history; <<>> while it has none)               *)
(* nalloc : the number of pointer errors allocated                         *)
(* last   : the call that has just returned and what it returned, NoCall  *)
(*          once the caller has taken the result                           *)

NoCall ==
    [op |-> "none", xi |-> 0, x |-> NilErr, o |-> NilErr, t |-> StandardFormat,
     verb |-> "", plus |-> FALSE, site |-> <<>>, val |-> NilErr, lines |-> <<>>,
     err |-> NilErr, out |-> <<>>, b |-> FALSE, cap |-> 0]

\* errs[i], 0 standing for nil
Held(i) == IF i = 0 THEN NilErr ELSE errs[i]

OriginOf(i) == IF i = 0 THEN <<>> ELSE origin[i]

Init ==
    /\ errs = <<>>
    /\ origin = <<>>
    /\ nalloc = 0
    /\ last = NoCall

Idle == last = NoCall

\* the program keeps the value a constructor returned
Keep(v, org, allocs) ==
    /\ errs' = Append(errs, v)
    /\ origin' = Append(origin, org)
    /\ nalloc' = nalloc + allocs

\* e := errors.New(m), or an error of a third party
ErrorsNewCall ==
    /\ Idle
    /\ Len(errs) < MaxErrs
    /\ \E third \in BOOLEAN :
         LET v == IF third THEN ThirdParty(nalloc + 1)
                  ELSE ErrorsNew(<<"new err">>, nalloc + 1)
         IN /\ Keep(v, <<>>, 1)
            /\ last' = [NoCall EXCEPT !.op = "errors.New", !.val = v]

\* e := fmt.Errorf("wrapped: %w", errs[i])
FmtErrorfCall ==
    /\ Idle
    /\ Len(errs) < MaxErrs
    /\ \E i \in 1..Len(errs) :
         LET v == FmtErrorf("w", errs[i], nalloc + 1)
         IN /\ Keep(v, origin[i], 1)
            /\ last' = [NoCall EXCEPT !.op = "fmt.Errorf", !.xi = i, !.x = errs[i],
                                      !.val = v]

\* e := stackerr.New(m)
NewCall ==
    /\ Idle
    /\ Len(errs) < MaxErrs
    /\ \E m \in Msgs, s \in Stacks :
         LET r == New(m, nalloc + 1, s)
         IN /\ Keep(r.val, s, 1)
            /\ last' = [NoCall EXCEPT !.op = "New", !.site = s, !.val = r.val,
                                      !.cap = r.cap]

\* e := stackerr.Wrap(errs[i]), or stackerr.Wrap(nil)
WrapCall ==
    /\ Idle
    /\ \E i \in 0..Len(errs), s \in Stacks :
         LET r == Wrap(Held(i), s)
         IN /\ IF r.val = Held(i)
               THEN UNCHANGED <<errs, origin, nalloc>>
               ELSE /\ Len(errs) < MaxErrs
                    /\ Keep(r.val, s, 0)
            /\ last' = [NoCall EXCEPT !.op = "Wrap", !.xi = i, !.x = Held(i),
                                      !.site = s, !.val = r.val, !.cap = r.cap]

\* e := stackerr.Errorf("wrapped: %w", errs[i]), or stackerr.Errorf("wrapped: ")
ErrorfCall ==
    /\ Idle
    /\ Len(errs) < MaxErrs
    /\ \E dir \in Directives, i \in 0..Len(errs), s \in Stacks :
         /\ (dir = "none") <=> (i = 0)
         /\ LET r == Errorf(dir, Held(i), nalloc + 1, s)
                org == IF dir = "w" /\ HasStack(errs[i]) THEN origin[i] ELSE s
            IN /\ Keep(r.val, org, 1)
               /\ last' = [NoCall EXCEPT !.op = "Errorf", !.xi = i, !.x = Held(i),
                                         !.verb = dir, !.site = s, !.val = r.val,
                                         !.cap = r.cap]

\* The calls below read an error and change nothing.  What they return depends
\* on the error alone, and every held error was once the newest, so they are
\* made on the newest one.
Newest == Len(errs)

\* lines, err := stackerr.Trace(errs[i], t)
TraceCall ==
    /\ Idle
    /\ Newest > 0
    /\ \E t \in Templates, s \in Stacks :
         LET r == Trace(errs[Newest], t, nalloc + 1, s)
         IN last' = [NoCall EXCEPT !.op = "Trace", !.xi = Newest, !.x = errs[Newest],
                                   !.t = t, !.site = s, !.lines = r.lines,
                                   !.err = r.err, !.cap = r.cap]
    /\ UNCHANGED <<errs, origin, nalloc>>

\* out := fmt.Sprintf("%v", d) and the like, d an errorStack
FormatCall ==
    /\ Idle
    /\ Newest > 0
    /\ errs[Newest].kind = "stack"
    /\ \E verb \in Verbs, plus \in BOOLEAN :
         last' = [NoCall EXCEPT !.op = "Format", !.xi = Newest, !.x = errs[Newest],
                                !.verb = verb, !.plus = plus, !.site = ShallowStack,
                                !.out = Format(errs[Newest], verb, plus, nalloc + 1,
                                               <<"fmt.Sprintf">> \o ShallowStack)]
    /\ UNCHANGED <<errs, origin, nalloc>>

\* b := d.Is(o), d an errorStack
IsCall ==
    /\ Idle
    /\ Newest > 0
    /\ \E i, j \in 1..Len(errs) :
         /\ i = Newest \/ j = Newest
         /\ errs[i].kind = "stack"
         /\ last' = [NoCall EXCEPT !.op = "Is", !.xi = i, !.x = errs[i],
                                   !.o = errs[j], !.b = Is(errs[i], errs[j])]
    /\ UNCHANGED <<errs, origin, nalloc>>

\* b := stackerr.HasStack(e)
HasStackCall ==
    /\ Idle
    /\ Newest > 0
    /\ last' = [NoCall EXCEPT !.op = "HasStack", !.xi = Newest, !.x = errs[Newest],
                              !.b = HasStack(errs[Newest])]
    /\ UNCHANGED <<errs, origin, nalloc>>

\* the caller has looked at the result of the call
Done ==
    /\ ~Idle
    /\ last' = NoCall
    /\ UNCHANGED <<errs, origin, nalloc>>

Next ==
    \/ ErrorsNewCall
    \/ FmtErrorfCall
    \/ NewCall
    \/ WrapCall
    \/ ErrorfCall
    \/ TraceCall
    \/ FormatCall
    \/ IsCall
    \/ HasStackCall
    \/ Done

Spec == Init /\ [][Next]_vars

(* Vocabulary of the properties *)

RECURSIVE Chain(_)
\* the unwrap chain of e, e first
Chain(e) == IF e = NilErr THEN <<>> ELSE <<e>> \o Chain(Unwrap(e))

\* the positions of the decorators on the unwrap chain of e
DecoratorsAt(e) == {k \in 1..Len(Chain(e)) : Chain(e)[k].kind = "stack"}

Decorated(e) == DecoratorsAt(e) # {}

\* the frames a capture made for a caller with call stack site holds
Capture(site) == Take(site, MaxFrames)

\* the frames Trace walks for the held error i
Resolved(i) == Capture(origin[i])

\* what the call recorded in last handed to the template engine
TraceStack == <<"stackerr.Trace">> \o last.site

Rendered(t, pc) == Execute(t, FrameOf(pc), nalloc + 1, TraceStack)

Failing(t, pcs) == {k \in 1..Len(pcs) : Rendered(t, pcs[k]).err # NilErr}

\* the error of the first frame the template fails on
RenderErr(t, pcs) ==
    LET k == CHOOSE f \in Failing(t, pcs) : \A g \in Failing(t, pcs) : f <= g
    IN Rendered(t, pcs[k]).err

StandardLine(pc) == <<pc, " (", SymTab[pc].File, ":", SymTab[pc].Line, ")">>

\* every error value the program can see
Visible == {errs[i] : i \in 1..Len(errs)} \cup {last.val, last.err}

(* C1 *)

\* C1: once an error has a decorator, every further re-wrap by Errorf with %w,
\* by fmt.Errorf with %w or by Wrap leaves the trace resolved from the error
\* and from every decorator on its unwrap chain equal to the frames captured
\* where it first got a decorator, and none of the re-wraps captures a stack.
C1_FirstCaptureKept ==
    /\ \A i \in 1..Len(errs) :
         \A k \in DecoratorsAt(errs[i]) :
           StackTrace(Chain(errs[i])[k]) = Resolved(i)
    /\ (last.op \in {"Errorf", "Wrap", "fmt.Errorf"} /\ Decorated(last.x))
         => /\ last.cap = 0
            /\ Decorated(last.val)
            /\ StackTrace(As(last.val)) = Capture(OriginOf(last.xi))

\* a third decoration, made by a caller other than the one of the first capture
C1_Witness ==
    /\ last.op = "Errorf"
    /\ last.x.kind = "stack"
    /\ last.x.earlier # NilErr
    /\ last.site # OriginOf(last.xi)
    /\ Len(OriginOf(last.xi)) > MaxFrames

(* C2 *)

\* C2: Wrap(x) returns x itself, capturing nothing, exactly when x is nil or
\* has a decorator on its unwrap chain; otherwise it returns a new decorator
\* around x with a fresh capture.  Wrapping the result again changes nothing,
\* and the result shows x's display string.
C2_WrapOnce ==
    last.op = "Wrap" =>
      LET x == last.x
          v == last.val
      IN /\ (v = x) <=> (x = NilErr \/ Decorated(x))
         /\ (v = x) => last.cap = 0
         /\ (v # x) => /\ v = [kind |-> "stack", Err |-> x,
                               trace |-> Capture(last.site), earlier |-> NilErr]
                       /\ last.cap = 1
         /\ \A s \in Stacks : Wrap(v, s) = [val |-> v, cap |-> 0]
         /\ (x # NilErr) => (HasStack(v) /\ Error(v) = Error(x))

\* Wrap handed a fmt.Errorf wrapper that has a decorator below it
C2_Witness ==
    /\ last.op = "Wrap"
    /\ last.x.kind = "wrap"
    /\ Decorated(last.x)
    /\ last.val = last.x

(* C3 *)

C4_DetailedForm ==
    (last.op = "Format" /\ last.verb = "v" /\ last.plus) =>
      LET d == last.x
          lines == Trace(d, StandardFormat, nalloc + 1,
                         <<"fmt.Sprintf">> \o last.site).lines
          pcs == Resolved(last.xi)
          head == Detailed(d.Err)
      IN /\ lines = [k \in 1..Len(pcs) |-> StandardLine(pcs[k])]
         /\ Len(last.out) = Len(head) + 7 * Len(pcs)
         /\ SubSeq(last.out, 1, Len(head)) = head
         /\ \A k \in 1..Len(pcs) :
              /\ last.out[Len(head) + 7 * (k - 1) + 1] = "\n"
              /\ SubSeq(last.out, Len(head) + 7 * (k - 1) + 2, Len(head) + 7 * k)
                   = lines[k]

\* %+v of a decorator that points to an earlier one whose capture was cut
C4_Witness ==
    /\ last.op = "Format"
    /\ last.verb = "v"
    /\ last.plus
    /\ last.x.earlier # NilErr
    /\ Len(OriginOf(last.xi)) > MaxFrames

(* C5 *)

\* C5: for a decorated error and a template that renders every frame, Trace
\* returns no error and one line per frame of the capture resolved from the
\* first decorator of the chain, in capture order.
C5_OneLinePerFrame ==
    (/\ last.op = "Trace"
     /\ Decorated(last.x)
     /\ Failing(last.t, Resolved(last.xi)) = {}) =>
      LET pcs == Resolved(last.xi)
      IN /\ last.err = NilErr
         /\ last.lines = [k \in 1..Len(pcs) |-> Rendered(last.t, pcs[k]).out]
         /\ pcs = StackTrace(Chain(last.x)[CHOOSE k \in DecoratorsAt(last.x) :
                                             \A j \in DecoratorsAt(last.x) : k <= j])

\* a template with a function, on a cut capture below a fmt.Errorf wrapper
C5_Witness ==
    /\ last.op = "Trace"
    /\ last.t = guardedFormat
    /\ last.x.kind = "wrap"
    /\ Len(last.lines) = MaxFrames

(* C6 *)

\* C6: without a decorator on the unwrap chain HasStack is false and Trace
\* returns nothing and no error, whatever the template; with a decorator at
\* any depth HasStack is true.
C6_NoDecoratorNoTrace ==
    /\ (last.op = "Trace" /\ ~Decorated(last.x)) =>
         (last.lines = <<>> /\ last.err = NilErr /\ last.cap = 0)
    /\ (last.op = "HasStack") => (last.b <=> Decorated(last.x))

\* a template that fails on every frame, on an error without decorator
C6_Witness ==
    /\ last.op = "Trace"
    /\ last.t = invalidFormat
    /\ ~Decorated(last.x)

(* C7 *)

\* C7 as claimed: when the template fails on a frame, Trace returns no lines
\* and an error that carries a decorator with a fresh capture made inside
\* Trace, and that shows the rendering error's display string.
C7_Original ==
    (/\ last.op = "Trace"
     /\ Decorated(last.x)
     /\ Failing(last.t, Resolved(last.xi)) # {}) =>
      /\ last.lines = <<>>
      /\ last.err # NilErr
      /\ HasStack(last.err)
      /\ StackTrace(As(last.err)) = Capture(TraceStack)
      /\ Error(last.err) = Error(RenderErr(last.t, Resolved(last.xi)))

\* C7 amended: when the template fails on a frame, Trace returns no lines and
\* an error that has a decorator and shows the rendering error's display
\* string: a new decorator around the rendering error with a fresh capture
\* made inside Trace when the rendering error has no decorator on its chain,
\* and the rendering error itself, with the capture it has, when it has one.
C7_FailureWrapped ==
    (/\ last.op = "Trace"
     /\ Decorated(last.x)
     /\ Failing(last.t, Resolved(last.xi)) # {}) =>
      LET re == RenderErr(last.t, Resolved(last.xi))
      IN /\ last.lines = <<>>
         /\ last.err # NilErr
         /\ HasStack(last.err)
         /\ Error(last.err) = Error(re)
         /\ IF Decorated(re)
            THEN last.err = re
            ELSE last.err = [kind |-> "stack", Err |-> re,
                             trace |-> Capture(TraceStack), earlier |-> NilErr]

\* the template function returned an error made by stackerr.New
C7_Witness ==
    /\ last.op = "Trace"
    /\ last.t = tracedFormat
    /\ last.err # NilErr
    /\ last.err.kind = "wrap"

(* C8 *)

\* C8: d.Is(o) holds exactly when o is a decorator and d's inner error
\* chain-matches o's inner error; frames and earlier have no say.  Every
\* decorator matches itself, and none matches a plain error with another
\* message that is not on its chain.
C8_IsOnInner ==
    last.op = "Is" =>
      LET d == last.x
          o == last.o
          others == {<<>>, ShallowStack}
      IN /\ last.b <=> (o.kind = "stack" /\ ErrorsIs(d.Err, o.Err))
         /\ \A tr \in others, ea \in {NilErr, d} :
              /\ Is([d EXCEPT !.trace = tr, !.earlier = ea], o) = last.b
              /\ o.kind = "stack" =>
                   Is(d, [o EXCEPT !.trace = tr, !.earlier = ea]) = last.b
         /\ Is(d, d)
         /\ ErrorsIs(d, d)
         /\ (/\ o.kind = "plain"
             /\ o.msg # Error(d)
             /\ \A k \in 1..Len(Chain(d)) : Chain(d)[k] # o) => ~ErrorsIs(d, o)

\* two decorators around the same error, with different captures
C8_Witness ==
    /\ last.op = "Is"
    /\ last.b
    /\ last.o.kind = "stack"
    /\ last.x.Err = last.o.Err
    /\ last.x.trace # last.o.trace

(* C9 *)

\* C9: an unwrap chain with a decorator has exactly one decorator with frames;
\* every other decorator of the chain is above it and its earlier reference
\* is that decorator.
C9_OneCapturePerChain ==
    \A i \in 1..Len(errs) :
      LET ch == Chain(errs[i])
          decs == DecoratorsAt(errs[i])
          framed == {k \in decs : ch[k].trace # <<>>}
      IN decs # {} =>
           /\ Cardinality(framed) = 1
           /\ \A k \in framed : \A j \in decs \ {k} :
                /\ j < k
                /\ ch[j].earlier = ch[k]

\* two decorators with a fmt.Errorf wrapper between them
C9_Witness ==
    \E i \in 1..Len(errs) :
      /\ Cardinality(DecoratorsAt(errs[i])) = 2
      /\ \E k \in 1..Len(Chain(errs[i])) :
           /\ k + 1 \in DecoratorsAt(errs[i])
           /\ Chain(errs[i])[k].kind = "wrap"
           /\ k - 1 \notin DecoratorsAt(errs[i])

(* C10 *)

\* C10: every decorator the package returns has either frames and no earlier
\* reference, or an earlier reference and no frames; an earlier reference
\* leads to a decorator with frames and no earlier reference of its own.
C10_FramesOrEarlier ==
    \A e \in Visible :
      \A k \in DecoratorsAt(e) :
        LET d == Chain(e)[k]
        IN /\ (d.trace # <<>>) <=> (d.earlier = NilErr)
           /\ d.earlier # NilErr =>
                /\ d.earlier.kind = "stack"
                /\ d.earlier.trace # <<>>
                /\ d.earlier.earlier = NilErr

\* Errorf around a decorator that itself points to an earlier one
C10_Witness ==
    \E i \in 1..Len(errs) :
      /\ errs[i].kind = "stack"
      /\ errs[i].earlier # NilErr
      /\ As(errs[i].Err) # NilErr
      /\ As(errs[i].Err).earlier # NilErr

====
